---- MODULE Spec2Model ----
(***************************************************************************)
(* Model of velox::models::setup_vehicle_parameters                        *)
(* (src/parameters/vehicle_parameters.cpp): resolution of the vehicle and  *)
(* tire YAML documents of a parameter root into a VehicleParameters value. *)
(*                                                                         *)
(* The YAML documents are trees of yaml-cpp nodes.  The operations of      *)
(* YAML::Node that the code uses (const operator[], operator bool, IsMap,  *)
(* operator=, as<double>, LoadFile) are modelled by what yaml-cpp does,    *)
(* including the exceptions they throw.  A C++ exception is modelled as a  *)
(* value [thrown |-> <exception type>, value |-> ...] that every caller    *)
(* propagates, as stack unwinding does.                                    *)
(***************************************************************************)
EXTENDS Integers, Sequences, FiniteSets, TLC

VARIABLES
    files,         \* the filesystem: path -> file (existence, content)
    pc,            \* per call: the statement the call is at
    vehicle_id,    \* per call: argument vehicle_id
    dir_params,    \* per call: argument dir_params
    vehicle_yaml,  \* per call: local fs::path vehicle_yaml
    tire_yaml,     \* per call: local fs::path tire_yaml
    conf_vehicle,  \* per call: local YAML::Node conf_vehicle
    conf_tire,     \* per call: local YAML::Node conf_tire
    p,             \* per call: local VehicleParameters p
    result,        \* per call: what the call gave its caller
    fs_log         \* per call: history of its filesystem operations

vars == <<files, pc, vehicle_id, dir_params, vehicle_yaml, tire_yaml,
          conf_vehicle, conf_tire, p, result, fs_log>>

(***************************************************************************)
(* Bounds of the model.                                                    *)
(***************************************************************************)
MaxValue == 2       \* numeric field values written in documents: 1..MaxValue
MaxVehicleId == 2   \* vehicle ids 1..MaxVehicleId
NumCalls == 2       \* resolution calls that may be in progress together

Calls == 1..NumCalls
VehicleIds == 1..MaxVehicleId

Range(s) == {s[i] : i \in 1..Len(s)}

(***************************************************************************)
(* Field tables: the keys each loader reads, in the order of its           *)
(* assign_if_present lines.  In every line the key and the target field    *)
(* have the same name, so one table gives both.                            *)
(***************************************************************************)
VehicleKeys ==
    <<"l", "w", "m", "m_s", "m_uf", "m_ur", "a", "b", "I_Phi_s", "I_y_s",
      "I_z", "I_xz_s", "K_sf", "K_sdf", "K_sr", "K_sdr", "T_f", "T_r",
      "K_ras", "K_tsf", "K_tsr", "K_rad", "K_zt", "h_cg", "h_raf", "h_rar",
      "h_s", "I_uf", "I_ur", "I_y_w", "K_lt", "R_w", "T_sb", "T_se", "D_f",
      "D_r", "E_f", "E_r">>

SteeringKeys ==
    <<"min", "max", "v_min", "v_max", "kappa_dot_max", "kappa_dot_dot_max">>

LongitudinalKeys ==
    <<"v_min", "v_max", "v_switch", "a_max", "j_max", "j_dot_max">>

TrailerKeys == <<"l", "w", "l_hitch", "l_total", "l_wb">>

TireKeys ==
    <<"p_cx1", "p_dx1", "p_dx3", "p_ex1", "p_kx1", "p_hx1", "p_vx1", "r_bx1",
      "r_bx2", "r_cx1", "r_ex1", "r_hx1", "p_cy1", "p_dy1", "p_dy3", "p_ey1",
      "p_ky1", "p_hy1", "p_hy3", "p_vy1", "p_vy3", "r_by1", "r_by2", "r_by3",
      "r_cy1", "r_ey1", "r_hy1", "r_vy1", "r_vy3", "r_vy4", "r_vy5", "r_vy6">>

GroupNames == {"steering", "longitudinal", "trailer", "tire"}

GroupKeys(g) ==
    CASE g = "steering" -> SteeringKeys
      [] g = "longitudinal" -> LongitudinalKeys
      [] g = "trailer" -> TrailerKeys
      [] g = "tire" -> TireKeys

(***************************************************************************)
(* VehicleParameters.  `double l{};` value-initialises each top-level      *)
(* scalar to zero.  The four group structs are declared in models/*.hpp,   *)
(* outside parameters/; their members are the fields the loaders assign,   *)
(* and their value-initialised content is zero, as the data model of the   *)
(* specification states.                                                   *)
(***************************************************************************)
DefaultScalar == 0

DefaultGroupScalar == 0

DefaultGroup(g) == [k \in Range(GroupKeys(g)) |-> DefaultGroupScalar]

DefaultParameters ==
    [k \in Range(VehicleKeys) \cup GroupNames |->
        IF k \in GroupNames THEN DefaultGroup(k) ELSE DefaultScalar]

(***************************************************************************)
(* yaml-cpp nodes.  A node has a type; a Scalar has a text (a sequence of  *)
(* characters), a Map has entries <<key, node>>.  "Zombie" is the invalid  *)
(* node (m_isValid = false) that const operator[] returns for a key that   *)
(* is not there.                                                           *)
(***************************************************************************)
ScalarNode(t) == [type |-> "Scalar", text |-> t, map |-> {}]
NullNode == [type |-> "Null", text |-> <<>>, map |-> {}]
SequenceNode == [type |-> "Sequence", text |-> <<>>, map |-> {}]
MapNode(entries) == [type |-> "Map", text |-> <<>>, map |-> entries]
ZombieNode == [type |-> "Zombie", text |-> <<>>, map |-> {}]
UnsetNode == [type |-> "Unset", text |-> <<>>, map |-> {}]

Return(v) == [thrown |-> "", value |-> v]
Throw(e, v) == [thrown |-> e, value |-> v]

\* Node::operator bool / operator!: IsDefined(), false for an invalid node.
\* Every node a parsed document holds is defined (a null value included).
IsDefined(node) == node.type # "Zombie"

\* Node::IsMap().  The code calls it only behind `!n ||`, on a valid node.
IsMap(node) == node.type = "Map"

\* const Node::operator[](key), key a string: a Scalar throws BadSubscript,
\* an invalid node throws InvalidNode, a Map gives the value of the key, and
\* everything else (key absent, Null, Sequence) gives the invalid node.
Subscript(node, key) ==
    CASE node.type = "Zombie" -> Throw("InvalidNode", ZombieNode)
      [] node.type = "Scalar" -> Throw("BadSubscript", ZombieNode)
      [] node.type = "Map" /\ (\E e \in node.map : e[1] = key) ->
            Return((CHOOSE e \in node.map : e[1] = key)[2])
      [] OTHER -> Return(ZombieNode)

\* Node::operator=(const Node&): throws InvalidNode when either side is an
\* invalid node; otherwise the left node becomes an alias of the right one.
NodeAssign(lhs, rhs) ==
    IF lhs.type = "Zombie" \/ rhs.type = "Zombie"
    THEN Throw("InvalidNode", lhs)
    ELSE Return(rhs)

(***************************************************************************)
(* Text of numbers.  std::to_string(int) writes decimal digits;            *)
(* convert<double>::decode reads a scalar's text back.  The texts of the   *)
(* model are optionally signed decimal integers and words; a text that is  *)
(* not a number does not convert.                                          *)
(***************************************************************************)
Digits == <<"0", "1", "2", "3", "4", "5", "6", "7", "8", "9">>

RECURSIVE ToDigits(_)
ToDigits(n) ==
    IF n < 10 THEN <<Digits[n + 1]>>
    ELSE ToDigits(n \div 10) \o <<Digits[(n % 10) + 1]>>

to_string(n) == IF n < 0 THEN <<"-">> \o ToDigits(0 - n) ELSE ToDigits(n)

DigitValue(ch) == (CHOOSE i \in 1..10 : Digits[i] = ch) - 1

RECURSIVE DigitsValue(_)
DigitsValue(s) ==
    IF s = <<>> THEN 0
    ELSE 10 * DigitsValue(SubSeq(s, 1, Len(s) - 1)) + DigitValue(s[Len(s)])

\* Node::as<double>(): TypedBadConversion unless the node is a Scalar whose
\* text reads as a number.
AsDouble(node) ==
    LET t == node.text
        neg == Len(t) > 0 /\ t[1] = "-"
        body == IF neg THEN Tail(t) ELSE t
    IN  IF node.type = "Zombie" THEN Throw("InvalidNode", 0)
        ELSE IF /\ node.type = "Scalar"
                /\ body # <<>>
                /\ \A i \in 1..Len(body) : body[i] \in Range(Digits)
        THEN Return(IF neg THEN 0 - DigitsValue(body) ELSE DigitsValue(body))
        ELSE Throw("BadConversion", 0)

(***************************************************************************)
(* The loaders.                                                            *)
(***************************************************************************)
\* assign_if_present(node, key, target): the new value of target.
assign_if_present(node, key, target) ==
    LET sub == Subscript(node, key)
    IN  IF sub.thrown # "" THEN Throw(sub.thrown, target)
        ELSE IF IsDefined(sub.value)
        THEN LET conv == AsDouble(sub.value)
             IN  IF conv.thrown # "" THEN Throw(conv.thrown, target)
                 ELSE Return(conv.value)
        ELSE Return(target)

\* The assign_if_present lines keys[i..] of one loader, in order, on the
\* struct s; the first exception ends the loader.
RECURSIVE AssignFields(_, _, _, _)
AssignFields(node, keys, i, s) ==
    IF i > Len(keys) THEN Return(s)
    ELSE LET r == assign_if_present(node, keys[i], s[keys[i]])
         IN  IF r.thrown # "" THEN Throw(r.thrown, s)
             ELSE AssignFields(node, keys, i + 1,
                               [s EXCEPT ![keys[i]] = r.value])

load_vehicle_scalars(n, params) == AssignFields(n, VehicleKeys, 1, params)

\* The shape shared by load_steering, load_longitudinal and load_trailer.
LoadGroup(root, g, s) ==
    LET sub == Subscript(root, g)
        n == sub.value
    IN  IF sub.thrown # "" THEN Throw(sub.thrown, s)
        ELSE IF ~IsDefined(n) \/ ~IsMap(n) THEN Return(s)
        ELSE AssignFields(n, GroupKeys(g), 1, s)

\* Mutant of load_steering: a node under the key that is no map is an error.
load_steering_strict(root, s) ==
    LET sub == Subscript(root, "steering")
    IN  IF sub.thrown = "" /\ ~IsMap(sub.value)
        THEN Throw("BadConversion", s)
        ELSE LoadGroup(root, "steering", s)

load_steering(root, s) == LoadGroup(root, "steering", s)

load_longitudinal(root, lp) == LoadGroup(root, "longitudinal", lp)

\* Mutant of load_trailer: the fields are read from the document's top level
\* when the trailer map does not give them.
load_trailer_from_root(root, tr) ==
    LET top == AssignFields(root, TrailerKeys, 1, tr)
    IN  IF top.thrown # "" THEN top ELSE LoadGroup(root, "trailer", top.value)

load_trailer(root, tr) == LoadGroup(root, "trailer", tr)

load_tire(root, tp) ==
    LET sub == Subscript(root, "tire")
        n0 == sub.value
    IN  IF sub.thrown # "" THEN Throw(sub.thrown, tp)
        ELSE IF ~IsDefined(n0) \/ ~IsMap(n0)
        THEN LET asg == NodeAssign(n0, root)
                 n == asg.value
             IN  IF asg.thrown # "" THEN Throw(asg.thrown, tp)
                 ELSE IF ~IsDefined(n) \/ ~IsMap(n) THEN Return(tp)
                 ELSE AssignFields(n, TireKeys, 1, tp)
        ELSE AssignFields(n0, TireKeys, 1, tp)

(***************************************************************************)
(* Paths and files.  A path is a sequence of components, a component a     *)
(* sequence of text fragments; path.string() joins the components with     *)
(* "/".  A file either does not exist, or holds text that does not parse,  *)
(* or holds a document (its root node; an empty file is the Null node).    *)
(***************************************************************************)
VELOX_PARAM_ROOT == "parameters"

RootPath(dir) == IF dir = "" THEN <<<<VELOX_PARAM_ROOT>>>> ELSE <<<<dir>>>>

VehicleYaml(root, id) ==
    root \o <<<<"vehicle">>,
              <<"parameters_vehicle">> \o to_string(id) \o <<".yaml">>>>

TireYaml(root) == root \o <<<<"tire">>, <<"parameters_tire.yaml">>>>

RECURSIVE PathString(_)
PathString(path) ==
    IF Len(path) = 0 THEN <<>>
    ELSE IF Len(path) = 1 THEN path[1]
    ELSE path[1] \o <<"/">> \o PathString(Tail(path))

NoFile == [exists |-> FALSE, wellformed |-> FALSE, node |-> NullNode]
MalformedFile == [exists |-> TRUE, wellformed |-> FALSE, node |-> NullNode]
File(node) == [exists |-> TRUE, wellformed |-> TRUE, node |-> node]

\* fs::exists(path)
Exists(fs, path) == path \in DOMAIN fs /\ fs[path].exists

\* YAML::LoadFile(path.string()): BadFile when the file cannot be opened,
\* ParserException on a syntax error, else the document's root node.
LoadFile(fs, path) ==
    IF ~Exists(fs, path) THEN Throw("BadFile", UnsetNode)
    ELSE IF ~fs[path].wellformed THEN Throw("ParserException", UnsetNode)
    ELSE Return(fs[path].node)

VehicleNotFound(path) ==
    <<"Vehicle parameter file not found: ">> \o PathString(path)

TireNotFound(path) ==
    <<"Tire parameter file not found: ">> \o PathString(path)

(***************************************************************************)
(* What a call gives its caller: the structure, or an exception (thrown    *)
(* at statement `at`), in which case the local p is destroyed by the       *)
(* unwinding and the caller gets no structure.                             *)
(***************************************************************************)
NoResult == [status |-> "none", type |-> "", what |-> <<>>, at |-> "",
             value |-> <<>>]

Returned(v) == [status |-> "returned", type |-> "", what |-> <<>>,
                at |-> "return", value |-> v]

Threw(e, msg, stmt) == [status |-> "threw", type |-> e, what |-> msg,
                        at |-> stmt, value |-> <<>>]

(***************************************************************************)
(* The population part of setup_vehicle_parameters (lines 206-217) as one  *)
(* function of the two document trees.                                     *)
(***************************************************************************)
Populate(cv, ct) ==
    LET p0 == DefaultParameters
        r1 == load_vehicle_scalars(cv, p0)
        r2 == load_steering(cv, r1.value.steering)
        p2 == [r1.value EXCEPT !.steering = r2.value]
        r3 == load_longitudinal(cv, p2.longitudinal)
        p3 == [p2 EXCEPT !.longitudinal = r3.value]
        r4 == load_trailer(cv, p3.trailer)
        p4 == [p3 EXCEPT !.trailer = r4.value]
        r5 == load_tire(ct, p4.tire)
        p5 == [p4 EXCEPT !.tire = r5.value]
    IN  IF r1.thrown # "" THEN Threw(r1.thrown, <<>>, "load_vehicle_scalars")
        ELSE IF r2.thrown # "" THEN Threw(r2.thrown, <<>>, "load_steering")
        ELSE IF r3.thrown # "" THEN Threw(r3.thrown, <<>>, "load_longitudinal")
        ELSE IF r4.thrown # "" THEN Threw(r4.thrown, <<>>, "load_trailer")
        ELSE IF r5.thrown # "" THEN Threw(r5.thrown, <<>>, "load_tire")
        ELSE Returned(p5)

\* setup_vehicle_parameters(vehicle_id, dir_params) on the filesystem fs,
\* as one function: the outcome of a call that runs alone.
setup_vehicle_parameters(fs, id, dir) ==
    LET vy == VehicleYaml(RootPath(dir), id)
        ty == TireYaml(RootPath(dir))
        cv == LoadFile(fs, vy)
        ct == LoadFile(fs, ty)
    IN  IF ~Exists(fs, vy)
        THEN Threw("runtime_error", VehicleNotFound(vy), "check_vehicle")
        ELSE IF ~Exists(fs, ty)
        THEN Threw("runtime_error", TireNotFound(ty), "check_tire")
        ELSE IF cv.thrown # "" THEN Threw(cv.thrown, <<>>, "load_vehicle_file")
        ELSE IF ct.thrown # "" THEN Threw(ct.thrown, <<>>, "load_tire_file")
        ELSE Populate(cv.value, ct.value)

(***************************************************************************)
(* The statements of setup_vehicle_parameters, one action each, for the    *)
(* call c.                                                                 *)
(***************************************************************************)
Goto(c, stmt) == pc' = [pc EXCEPT ![c] = stmt]

\* What a filesystem operation shows of a file: fs::exists its existence
\* only, LoadFile its content.
Observed(op, fs, path) ==
    IF op = "load" /\ path \in DOMAIN fs THEN fs[path]
    ELSE [exists |-> Exists(fs, path), wellformed |-> FALSE, node |-> NullNode]

Log(c, op, path) ==
    fs_log' = [fs_log EXCEPT
                  ![c] = Append(@, <<op, path, Observed(op, files, path)>>)]

\* An exception leaves the call: its locals are destroyed.
Raise(c, e, msg) ==
    /\ result' = [result EXCEPT ![c] = Threw(e, msg, pc[c])]
    /\ pc' = [pc EXCEPT ![c] = "done"]
    /\ p' = [p EXCEPT ![c] = <<>>]
    /\ conf_vehicle' = [conf_vehicle EXCEPT ![c] = UnsetNode]
    /\ conf_tire' = [conf_tire EXCEPT ![c] = UnsetNode]

\* lines 185-192
ResolvePaths(c) ==
    /\ pc[c] = "start"
    /\ vehicle_yaml' = [vehicle_yaml EXCEPT
                           ![c] = VehicleYaml(RootPath(dir_params[c]), vehicle_id[c])]
    /\ tire_yaml' = [tire_yaml EXCEPT ![c] = TireYaml(RootPath(dir_params[c]))]
    /\ Goto(c, "check_vehicle")
    /\ UNCHANGED <<files, vehicle_id, dir_params, conf_vehicle, conf_tire, p,
                   result, fs_log>>

\* Mutant of CheckVehicle: the existence of the vehicle document is not
\* checked.
CheckVehicleUnchecked(c) ==
    /\ pc[c] = "check_vehicle"
    /\ Goto(c, "check_tire")
    /\ UNCHANGED <<files, vehicle_id, dir_params, vehicle_yaml, tire_yaml,
                   conf_vehicle, conf_tire, p, result, fs_log>>

\* Mutant of CheckVehicle: the tire document is checked first.
CheckVehicleTireFirst(c) ==
    /\ pc[c] = "check_vehicle"
    /\ Log(c, "exists", vehicle_yaml[c])
    /\ IF ~Exists(files, tire_yaml[c])
       THEN Raise(c, "runtime_error", TireNotFound(tire_yaml[c]))
       ELSE IF ~Exists(files, vehicle_yaml[c])
       THEN Raise(c, "runtime_error", VehicleNotFound(vehicle_yaml[c]))
       ELSE Goto(c, "check_tire") /\ UNCHANGED <<result, p, conf_vehicle, conf_tire>>
    /\ UNCHANGED <<files, vehicle_id, dir_params, vehicle_yaml, tire_yaml>>

\* lines 194-197
CheckVehicle(c) ==
    /\ pc[c] = "check_vehicle"
    /\ Log(c, "exists", vehicle_yaml[c])
    /\ IF ~Exists(files, vehicle_yaml[c])
       THEN Raise(c, "runtime_error", VehicleNotFound(vehicle_yaml[c]))
       ELSE Goto(c, "check_tire") /\ UNCHANGED <<result, p, conf_vehicle, conf_tire>>
    /\ UNCHANGED <<files, vehicle_id, dir_params, vehicle_yaml, tire_yaml>>

\* Mutant of CheckTire: the existence of the tire document is not checked.
CheckTireUnchecked(c) ==
    /\ pc[c] = "check_tire"
    /\ Goto(c, "load_vehicle_file")
    /\ UNCHANGED <<files, vehicle_id, dir_params, vehicle_yaml, tire_yaml,
                   conf_vehicle, conf_tire, p, result, fs_log>>

\* lines 198-201
CheckTire(c) ==
    /\ pc[c] = "check_tire"
    /\ Log(c, "exists", tire_yaml[c])
    /\ IF ~Exists(files, tire_yaml[c])
       THEN Raise(c, "runtime_error", TireNotFound(tire_yaml[c]))
       ELSE Goto(c, "load_vehicle_file") /\ UNCHANGED <<result, p, conf_vehicle, conf_tire>>
    /\ UNCHANGED <<files, vehicle_id, dir_params, vehicle_yaml, tire_yaml>>

\* Mutant of LoadVehicleFile: the tree another call holds is reused.
LoadVehicleFileCached(c) ==
    /\ pc[c] = "load_vehicle_file"
    /\ Log(c, "load", vehicle_yaml[c])
    /\ LET r == LoadFile(files, vehicle_yaml[c])
           held == {d \in Calls : conf_vehicle[d] # UnsetNode}
       IN  IF r.thrown # ""
           THEN Raise(c, r.thrown, <<>>)
           ELSE /\ conf_vehicle' = [conf_vehicle EXCEPT
                       ![c] = IF held = {} THEN r.value
                              ELSE conf_vehicle[CHOOSE d \in held : TRUE]]
                /\ Goto(c, "load_tire_file")
                /\ UNCHANGED <<result, p, conf_tire>>
    /\ UNCHANGED <<files, vehicle_id, dir_params, vehicle_yaml, tire_yaml>>

\* line 203
LoadVehicleFile(c) ==
    /\ pc[c] = "load_vehicle_file"
    /\ Log(c, "load", vehicle_yaml[c])
    /\ LET r == LoadFile(files, vehicle_yaml[c])
       IN  IF r.thrown # ""
           THEN Raise(c, r.thrown, <<>>)
           ELSE /\ conf_vehicle' = [conf_vehicle EXCEPT ![c] = r.value]
                /\ Goto(c, "load_tire_file")
                /\ UNCHANGED <<result, p, conf_tire>>
    /\ UNCHANGED <<files, vehicle_id, dir_params, vehicle_yaml, tire_yaml>>

\* line 204
LoadTireFile(c) ==
    /\ pc[c] = "load_tire_file"
    /\ Log(c, "load", tire_yaml[c])
    /\ LET r == LoadFile(files, tire_yaml[c])
       IN  IF r.thrown # ""
           THEN Raise(c, r.thrown, <<>>)
           ELSE /\ conf_tire' = [conf_tire EXCEPT ![c] = r.value]
                /\ Goto(c, "construct")
                /\ UNCHANGED <<result, p, conf_vehicle>>
    /\ UNCHANGED <<files, vehicle_id, dir_params, vehicle_yaml, tire_yaml>>

\* line 206
Construct(c) ==
    /\ pc[c] = "construct"
    /\ p' = [p EXCEPT ![c] = DefaultParameters]
    /\ Goto(c, "load_vehicle_scalars")
    /\ UNCHANGED <<files, vehicle_id, dir_params, vehicle_yaml, tire_yaml,
                   conf_vehicle, conf_tire, result, fs_log>>

\* One population statement: r is what the loader gave for its target, and
\* put(v) is p with the target replaced by v.
PopulateStep(c, r, newp, next) ==
    /\ IF r.thrown # ""
       THEN Raise(c, r.thrown, <<>>)
       ELSE /\ p' = [p EXCEPT ![c] = newp]
            /\ Goto(c, next)
            /\ UNCHANGED <<result, conf_vehicle, conf_tire>>
    /\ UNCHANGED <<files, vehicle_id, dir_params, vehicle_yaml, tire_yaml,
                   fs_log>>

\* line 209
LoadVehicleScalars(c) ==
    /\ pc[c] = "load_vehicle_scalars"
    /\ LET r == load_vehicle_scalars(conf_vehicle[c], p[c])
       IN  PopulateStep(c, r, r.value, "load_steering")

\* line 210
LoadSteering(c) ==
    /\ pc[c] = "load_steering"
    /\ LET r == load_steering(conf_vehicle[c], p[c].steering)
       IN  PopulateStep(c, r, [p[c] EXCEPT !.steering = r.value],
                        "load_longitudinal")

\* line 211
LoadLongitudinal(c) ==
    /\ pc[c] = "load_longitudinal"
    /\ LET r == load_longitudinal(conf_vehicle[c], p[c].longitudinal)
       IN  PopulateStep(c, r, [p[c] EXCEPT !.longitudinal = r.value],
                        "load_trailer")

\* line 212
LoadTrailer(c) ==
    /\ pc[c] = "load_trailer"
    /\ LET r == load_trailer(conf_vehicle[c], p[c].trailer)
       IN  PopulateStep(c, r, [p[c] EXCEPT !.trailer = r.value], "load_tire")

\* line 215
LoadTire(c) ==
    /\ pc[c] = "load_tire"
    /\ LET r == load_tire(conf_tire[c], p[c].tire)
       IN  PopulateStep(c, r, [p[c] EXCEPT !.tire = r.value], "return")

\* line 217: p is handed to the caller; the locals go out of scope.
ReturnParameters(c) ==
    /\ pc[c] = "return"
    /\ result' = [result EXCEPT ![c] = Returned(p[c])]
    /\ pc' = [pc EXCEPT ![c] = "done"]
    /\ p' = [p EXCEPT ![c] = <<>>]
    /\ conf_vehicle' = [conf_vehicle EXCEPT ![c] = UnsetNode]
    /\ conf_tire' = [conf_tire EXCEPT ![c] = UnsetNode]
    /\ UNCHANGED <<files, vehicle_id, dir_params, vehicle_yaml, tire_yaml,
                   fs_log>>

Step(c) ==
    \/ ResolvePaths(c)
    \/ CheckVehicle(c)
    \/ CheckTire(c)
    \/ LoadVehicleFile(c)
    \/ LoadTireFile(c)
    \/ Construct(c)
    \/ LoadVehicleScalars(c)
    \/ LoadSteering(c)
    \/ LoadLongitudinal(c)
    \/ LoadTrailer(c)
    \/ LoadTire(c)
    \/ ReturnParameters(c)

(***************************************************************************)
(* The documents of the model.  Field values are the numbers 1..MaxValue;  *)
(* a word stands for a text that is no number.                             *)
(***************************************************************************)
Num(i) == ScalarNode(to_string(i))
Word == ScalarNode(<<"a", "b", "c">>)
UnknownKey == "comment"

Map1(k, v) == MapNode({<<k, v>>})

NumericScalars == {Num(i) : i \in 1..MaxValue}
NonMapNodes == NumericScalars \cup {Word, NullNode, SequenceNode}
LeafNodes == NonMapNodes \cup {MapNode({})}
ShapeNodes == {NullNode, Num(1), SequenceNode, MapNode({})}

\* A value for the field k, different for neighbouring fields.
ValueFor(keys, k) == ((CHOOSE i \in 1..Len(keys) : keys[i] = k) % MaxValue) + 1

FullMap(keys) == MapNode({<<k, Num(ValueFor(keys, k))>> : k \in Range(keys)})

\* One key with any value.
FlatDocs(keys) ==
    {Map1(k, v) : k \in Range(keys) \cup {UnknownKey}, v \in LeafNodes}

\* The value of a group key: no map, an empty map, a map with one key, or a
\* map with every field of the group.
GroupValues(g) ==
    NonMapNodes \cup {MapNode({}), FullMap(GroupKeys(g))} \cup FlatDocs(GroupKeys(g))

\* The entry that sets key k to v at location loc ("" is the top level).
At(loc, k, v) == IF loc = "" THEN <<k, v>> ELSE <<loc, Map1(k, v)>>

\* One key name set at two locations of a document, to different values.
TwoLocationDocs(locs, names) ==
    {MapNode({At(a, k, Num(i)), At(b, k, Num(j))}) :
        <<k, a, b, i, j>> \in
            {t \in names \X locs \X locs \X (1..MaxValue) \X (1..MaxValue) :
                t[2] # t[3] /\ t[4] # t[5]}}

VehicleGroups == {"steering", "longitudinal", "trailer"}

VehicleGroupFieldNames ==
    Range(SteeringKeys) \cup Range(LongitudinalKeys) \cup Range(TrailerKeys)

FullVehicleDoc ==
    MapNode(FullMap(VehicleKeys).map
            \cup {<<g, FullMap(GroupKeys(g))>> : g \in VehicleGroups})

VehicleDocs ==
    ShapeNodes
    \cup {FullVehicleDoc}
    \cup FlatDocs(VehicleKeys)
    \cup {Map1(g, x) : <<g, x>> \in
             UNION {{g} \X GroupValues(g) : g \in VehicleGroups}}
    \cup TwoLocationDocs({""} \cup VehicleGroups, VehicleGroupFieldNames)
    \cup {Map1(k, Num(1)) : k \in Range(TireKeys)}
    \cup {Map1("tire", Map1(k, Num(1))) : k \in Range(TireKeys)}

TireDocs ==
    ShapeNodes
    \cup {FullMap(TireKeys)}
    \cup FlatDocs(TireKeys)
    \cup {Map1("tire", x) : x \in GroupValues("tire")}
    \cup TwoLocationDocs({"", "tire"}, Range(TireKeys))
    \cup {MapNode({<<"tire", x>>, <<k, Num(1)>>}) :
             x \in {Word, NullNode, SequenceNode}, k \in Range(TireKeys)}

BasicVehicleFiles ==
    {NoFile, MalformedFile, File(NullNode), File(Num(1)), File(MapNode({})),
     File(Map1("m", Word)), File(Map1("m", Num(1)))}

BasicTireFiles ==
    {NoFile, MalformedFile, File(NullNode), File(Num(1)), File(MapNode({})),
     File(Map1("tire", Map1("p_cx1", Word))),
     File(Map1("tire", Map1("p_cx1", Num(1)))),
     File(Map1("p_cx1", Num(1)))}

GoodVehicleFiles == {File(MapNode({})), File(Map1("m", Num(1)))}

GoodTireFiles == {File(Map1("tire", MapNode({}))),
                  File(Map1("tire", Map1("p_cx1", Num(1))))}

(***************************************************************************)
(* The deployed layout of a parameter root:                                *)
(* <root>/vehicle/parameters_vehicle<id>.yaml, <root>/tire/parameters_tire.yaml *)
(***************************************************************************)
DirParams == {"", "cfg"}
RootNames == {"parameters", "cfg"}
RootName(dir) == IF dir = "" THEN "parameters" ELSE dir

Numerals == <<"1", "2", "3", "4", "5", "6", "7", "8", "9">>

VehicleDocumentAt(rootname, id) ==
    <<<<rootname>>, <<"vehicle">>, <<"parameters_vehicle", Numerals[id], ".yaml">>>>

TireDocumentAt(rootname) == <<<<rootname>>, <<"tire">>, <<"parameters_tire.yaml">>>>

AllPaths ==
    {VehicleDocumentAt(r, id) : r \in RootNames, id \in VehicleIds}
    \cup {TireDocumentAt(r) : r \in RootNames}

(***************************************************************************)
(* Spec: one call, on documents of every shape.                            *)
(***************************************************************************)
InitLocals ==
    /\ vehicle_yaml = [c \in Calls |-> <<>>]
    /\ tire_yaml = [c \in Calls |-> <<>>]
    /\ conf_vehicle = [c \in Calls |-> UnsetNode]
    /\ conf_tire = [c \in Calls |-> UnsetNode]
    /\ p = [c \in Calls |-> <<>>]
    /\ result = [c \in Calls |-> NoResult]
    /\ fs_log = [c \in Calls |-> <<>>]

InitCall(id, dir, vfile, tfile) ==
    /\ files = [path \in AllPaths |->
                   IF path = VehicleDocumentAt(RootName(dir), id) THEN vfile
                   ELSE IF path = TireDocumentAt(RootName(dir)) THEN tfile
                   ELSE NoFile]
    /\ pc = [c \in Calls |-> IF c = 1 THEN "start" ELSE "idle"]
    /\ vehicle_id = [c \in Calls |-> IF c = 1 THEN id ELSE 0]
    /\ dir_params = [c \in Calls |-> IF c = 1 THEN dir ELSE ""]
    /\ InitLocals

Init ==
    \/ \E id \in VehicleIds, dir \in DirParams,
          vfile \in BasicVehicleFiles, tfile \in BasicTireFiles :
            InitCall(id, dir, vfile, tfile)
    \/ \E vdoc \in VehicleDocs, tfile \in GoodTireFiles :
            InitCall(1, "", File(vdoc), tfile)
    \/ \E vfile \in GoodVehicleFiles, tdoc \in TireDocs :
            InitCall(1, "", vfile, File(tdoc))

Next == Step(1)

Spec == Init /\ [][Next]_vars

(***************************************************************************)
(* SpecCalls: several calls in progress together, their statements         *)
(* interleaved, while the environment rewrites documents.  A call is made  *)
(* with any vehicle id; the documents lie under the default root.  A       *)
(* rewrite replaces the content of a file that exists: files are neither   *)
(* created nor removed while calls run.                                    *)
(***************************************************************************)
CallVehicleFiles == {File(Map1("m", Num(i))) : i \in 1..MaxValue}

CallTireFiles ==
    {File(Map1("tire", Map1("p_cx1", Num(i)))) : i \in 1..MaxValue}

FilesFor(path) ==
    IF path = TireDocumentAt("parameters") THEN CallTireFiles
    ELSE CallVehicleFiles

\* Vehicle document id sets m to a value of its own; at most one document
\* of the root is missing.
InitCalls ==
    /\ \E missing \in {{}} \cup {{path} : path \in AllPaths} :
          files = [path \in AllPaths |->
                      IF path \in missing \/ path[1] # <<"parameters">>
                      THEN NoFile
                      ELSE IF path = TireDocumentAt("parameters")
                      THEN File(Map1("tire", Map1("p_cx1", Num(1))))
                      ELSE File(Map1("m", Num(
                              ((CHOOSE id \in VehicleIds :
                                   path = VehicleDocumentAt("parameters", id))
                               % MaxValue) + 1)))]
    /\ pc = [c \in Calls |-> "idle"]
    /\ vehicle_id = [c \in Calls |-> 0]
    /\ dir_params = [c \in Calls |-> ""]
    /\ InitLocals

\* A caller (one of the parameters_vehicle<id> wrappers) enters the function.
StartCall(c) ==
    /\ pc[c] = "idle"
    /\ \E id \in VehicleIds : vehicle_id' = [vehicle_id EXCEPT ![c] = id]
    /\ pc' = [pc EXCEPT ![c] = "start"]
    /\ UNCHANGED <<files, dir_params, vehicle_yaml, tire_yaml, conf_vehicle,
                   conf_tire, p, result, fs_log>>

\* The environment rewrites a document.
ChangeDocument ==
    /\ \E path \in AllPaths :
          /\ files[path].exists
          /\ \E f \in FilesFor(path) \ {files[path]} :
                files' = [files EXCEPT ![path] = f]
    /\ UNCHANGED <<pc, vehicle_id, dir_params, vehicle_yaml, tire_yaml,
                   conf_vehicle, conf_tire, p, result, fs_log>>

NextCalls ==
    \/ \E c \in Calls : StartCall(c) \/ Step(c)
    \/ ChangeDocument

SpecCalls == InitCalls /\ [][NextCalls]_vars

(***************************************************************************)
(* What the documentation says a document means, stated on the document    *)
(* itself and not through the loaders: a field is the number written for   *)
(* its key at its location, zero when the key is not there.                *)
(***************************************************************************)
VehicleFile(c) ==
    files[VehicleDocumentAt(RootName(dir_params[c]), vehicle_id[c])]

TireFile(c) == files[TireDocumentAt(RootName(dir_params[c]))]

Done(c) == pc[c] = "done"

Absent == ZombieNode

Lookup(node, k) ==
    IF node.type = "Map" /\ (\E e \in node.map : e[1] = k)
    THEN (CHOOSE e \in node.map : e[1] = k)[2]
    ELSE Absent

IsNumber(node) ==
    node.type = "Scalar" /\ \E i \in 1..MaxValue : node.text = <<Numerals[i]>>

NumberOf(node) == CHOOSE i \in 1..MaxValue : node.text = <<Numerals[i]>>

FieldValue(node) == IF IsNumber(node) THEN NumberOf(node) ELSE 0

\* A recognised key of the map `node` whose value is no number.
HasMismatch(node, keys) ==
    \E k \in Range(keys) : Lookup(node, k) # Absent /\ ~IsNumber(Lookup(node, k))

VehicleMismatch(V) ==
    \/ HasMismatch(V, VehicleKeys)
    \/ \E g \in VehicleGroups :
          Lookup(V, g).type = "Map" /\ HasMismatch(Lookup(V, g), GroupKeys(g))

\* The documented tire source: the map under `tire`, else the top level
\* when it is a map, else nothing.
TireSource(T) ==
    IF Lookup(T, "tire").type = "Map" THEN Lookup(T, "tire")
    ELSE IF T.type = "Map" THEN T
    ELSE Absent

TireMismatch(T) == HasMismatch(TireSource(T), TireKeys)

ExpectedTire(T) ==
    [k \in Range(TireKeys) |-> FieldValue(Lookup(TireSource(T), k))]

ExpectedGroup(V, g) ==
    [k \in Range(GroupKeys(g)) |-> FieldValue(Lookup(Lookup(V, g), k))]

ExpectedParameters(V, T) ==
    [k \in Range(VehicleKeys) \cup GroupNames |->
        IF k = "tire" THEN ExpectedTire(T)
        ELSE IF k \in VehicleGroups THEN ExpectedGroup(V, k)
        ELSE FieldValue(Lookup(V, k))]

\* A document that is a mapping, or empty.
IsMapping(node) == node.type \in {"Map", "Null"}

VehicleNotFoundText(c) ==
    <<"Vehicle parameter file not found: ", RootName(dir_params[c]), "/",
      "vehicle", "/", "parameters_vehicle", Numerals[vehicle_id[c]], ".yaml">>

TireNotFoundText(c) ==
    <<"Tire parameter file not found: ", RootName(dir_params[c]), "/",
      "tire", "/", "parameters_tire.yaml">>

IsTirePath(c, path) == path = TireDocumentAt(RootName(dir_params[c]))

Started(c) == pc[c] # "idle"

(***************************************************************************)
(* C1: when the vehicle document does not exist the call fails with the    *)
(* missing-document error that names the vehicle path, whatever the tire   *)
(* document is, and the call makes no filesystem operation on the tire     *)
(* document: neither an existence check nor a read.                        *)
(***************************************************************************)
C1_MissingVehicleDocument ==
    \A c \in Calls :
        (Started(c) /\ ~VehicleFile(c).exists) =>
            /\ \A i \in DOMAIN fs_log[c] : ~IsTirePath(c, fs_log[c][i][2])
            /\ Done(c) =>
                  /\ result[c].status = "threw"
                  /\ result[c].type = "runtime_error"
                  /\ result[c].what = VehicleNotFoundText(c)

C1_Witness ==
    /\ Done(1)
    /\ ~VehicleFile(1).exists
    /\ TireFile(1) = MalformedFile
    /\ result[1].what = VehicleNotFoundText(1)

VehicleAlone(V) == Populate(V, Map1("tire", MapNode({})))

TireAlone(T) == Populate(MapNode({}), T)

ExpectedOperations(c) ==
    <<<<"exists", VehicleDocumentAt(RootName(dir_params[c]), vehicle_id[c])>>,
      <<"exists", TireDocumentAt(RootName(dir_params[c]))>>,
      <<"load", VehicleDocumentAt(RootName(dir_params[c]), vehicle_id[c])>>,
      <<"load", TireDocumentAt(RootName(dir_params[c]))>>>>

FirstFault(c) ==
    LET vf == VehicleFile(c)
        tf == TireFile(c)
    IN  IF ~vf.exists
        THEN <<"threw", "check_vehicle", "runtime_error", VehicleNotFoundText(c)>>
        ELSE IF ~tf.exists
        THEN <<"threw", "check_tire", "runtime_error", TireNotFoundText(c)>>
        ELSE IF ~vf.wellformed
        THEN <<"threw", "load_vehicle_file", "ParserException", <<>>>>
        ELSE IF ~tf.wellformed
        THEN <<"threw", "load_tire_file", "ParserException", <<>>>>
        ELSE IF VehicleAlone(vf.node).status = "threw"
        THEN <<"threw", VehicleAlone(vf.node).at, VehicleAlone(vf.node).type, <<>>>>
        ELSE IF TireAlone(tf.node).status = "threw"
        THEN <<"threw", "load_tire", TireAlone(tf.node).type, <<>>>>
        ELSE <<"returned", "return", "", <<>>>>

C10_ErrorPrecedence ==
    \A c \in Calls :
        Started(c) =>
            /\ Len(fs_log[c]) <= 4
            /\ \A i \in DOMAIN fs_log[c] :
                  <<fs_log[c][i][1], fs_log[c][i][2]>> = ExpectedOperations(c)[i]
            /\ p[c] # <<>> => Len(fs_log[c]) = 4
            /\ Done(c) =>
                  <<result[c].status, result[c].at, result[c].type,
                    result[c].what>> = FirstFault(c)

C10_Witness ==
    /\ Done(1)
    /\ VehicleFile(1) = File(Map1("m", Word))
    /\ TireFile(1) = MalformedFile
    /\ result[1].at = "load_tire_file"
    /\ result[1].type = "ParserException"

(***************************************************************************)
(* C8: for each of the groups steering, longitudinal and trailer: when the *)
(* vehicle document has no node under the group's key, or the node there   *)
(* is not a map, the group's loader raises no error and leaves the group   *)
(* at its default values, in p from then on and in the returned structure. *)
(***************************************************************************)
Statements ==
    <<"start", "check_vehicle", "check_tire", "load_vehicle_file",
      "load_tire_file", "construct", "load_vehicle_scalars", "load_steering",
      "load_longitudinal", "load_trailer", "load_tire", "return">>

StatementIndex(stmt) == CHOOSE i \in 1..Len(Statements) : Statements[i] = stmt

LoaderOf(g) ==
    CASE g = "steering" -> "load_steering"
      [] g = "longitudinal" -> "load_longitudinal"
      [] g = "trailer" -> "load_trailer"

GroupNotGiven(V, g) == Lookup(V, g).type # "Map"

C8_GroupAbsentOrNotMap ==
    \A c \in Calls, g \in VehicleGroups :
        (/\ Started(c)
         /\ VehicleFile(c).exists /\ VehicleFile(c).wellformed
         /\ GroupNotGiven(VehicleFile(c).node, g)) =>
            /\ (pc[c] \in Range(Statements)
                    /\ StatementIndex(pc[c]) > StatementIndex(LoaderOf(g))) =>
                  p[c][g] = DefaultGroup(g)
            /\ Done(c) =>
                  /\ result[c].at # LoaderOf(g)
                  /\ result[c].status = "returned" =>
                        result[c].value[g] = DefaultGroup(g)

C8_Witness ==
    /\ Done(1)
    /\ result[1].status = "returned"
    /\ VehicleFile(1).node = Map1("steering", SequenceNode)
    /\ result[1].value.steering = DefaultGroup("steering")

(***************************************************************************)
(* C5: group isolation.  In a returned structure, taking one entry out of  *)
(* the vehicle document (a top-level key, or a key inside steering,        *)
(* longitudinal or trailer) changes at most the field of that name at that *)
(* location and no other field, also when the same key name is used at     *)
(* another location; and the tire group is the one an empty vehicle        *)
(* document gives.                                                         *)
(***************************************************************************)
EntriesOf(V) ==
    {<<"", e[1]>> : e \in {e \in V.map :
                              ~(e[1] \in VehicleGroups /\ e[2].type = "Map")}}
    \cup UNION {{<<e[1], f[1]>> : f \in e[2].map} :
                   e \in {e \in V.map :
                             e[1] \in VehicleGroups /\ e[2].type = "Map"}}

Without(V, loc, k) ==
    IF loc = "" THEN MapNode({e \in V.map : e[1] # k})
    ELSE MapNode({IF e[1] = loc
                  THEN <<loc, MapNode({f \in e[2].map : f[1] # k})>>
                  ELSE e : e \in V.map})

FilesWith(c, vfile, tfile) ==
    [files EXCEPT
        ![VehicleDocumentAt(RootName(dir_params[c]), vehicle_id[c])] = vfile,
        ![TireDocumentAt(RootName(dir_params[c]))] = tfile]

SameExcept(a, b, loc, k) ==
    /\ \A f \in Range(VehicleKeys) : (loc # "" \/ f # k) => a[f] = b[f]
    /\ \A g \in GroupNames :
          \A f \in Range(GroupKeys(g)) : (loc # g \/ f # k) => a[g][f] = b[g][f]

C5_GroupIsolation ==
    \A c \in Calls :
        (Done(c) /\ result[c].status = "returned"
            /\ VehicleFile(c).node.type = "Map") =>
            LET V == VehicleFile(c).node
                empty == setup_vehicle_parameters(
                             FilesWith(c, File(MapNode({})), TireFile(c)),
                             vehicle_id[c], dir_params[c])
            IN  /\ empty.status = "returned"
                /\ empty.value.tire = result[c].value.tire
                /\ \A loc \in EntriesOf(V) :
                      LET r == setup_vehicle_parameters(
                                   FilesWith(c, File(Without(V, loc[1], loc[2])),
                                             TireFile(c)),
                                   vehicle_id[c], dir_params[c])
                      IN  /\ r.status = "returned"
                          /\ SameExcept(result[c].value, r.value, loc[1], loc[2])

C5_Witness ==
    /\ Done(1)
    /\ result[1].status = "returned"
    /\ VehicleFile(1).node = MapNode({<<"l", Num(1)>>, <<"trailer", Map1("l", Num(2))>>})
    /\ result[1].value.l = 1
    /\ result[1].value.trailer.l = 2

(***************************************************************************)
(* C3: field override.  After a successful call every recognised field     *)
(* equals the number written for its key at its own location and zero when *)
(* the key is not there; and a document that sets exactly one field, the   *)
(* other document setting none, gives the all-default structure with that  *)
(* one field set.                                                          *)
(***************************************************************************)
BothParsed(c) ==
    /\ VehicleFile(c).exists /\ VehicleFile(c).wellformed
    /\ TireFile(c).exists /\ TireFile(c).wellformed

OneField(doc, keys) ==
    /\ doc.type = "Map"
    /\ Cardinality(doc.map) = 1
    /\ \E e \in doc.map : e[1] \in Range(keys) /\ IsNumber(e[2])

OneGroupField(doc, g) ==
    /\ doc.type = "Map"
    /\ Cardinality(doc.map) = 1
    /\ \E e \in doc.map : e[1] = g /\ OneField(e[2], GroupKeys(g))

SetsOneField(V, T) ==
    \/ /\ T = Map1("tire", MapNode({}))
       /\ OneField(V, VehicleKeys) \/ \E g \in VehicleGroups : OneGroupField(V, g)
    \/ /\ V = MapNode({})
       /\ OneField(T, TireKeys) \/ OneGroupField(T, "tire")

C3_FieldOverride ==
    \A c \in Calls :
        (Done(c) /\ BothParsed(c)) =>
            LET V == VehicleFile(c).node
                T == TireFile(c).node
            IN  /\ result[c].status = "returned" =>
                      result[c].value = ExpectedParameters(V, T)
                /\ SetsOneField(V, T) =>
                      /\ result[c].status = "returned"
                      /\ result[c].value = ExpectedParameters(V, T)

(***************************************************************************)
(* C4: tire dual-schema equivalence.  A flat tire document F (a map with   *)
(* no `tire` key) gives the same outcome and the same tire group as the    *)
(* document {tire: F}, the vehicle document being the same.                *)
(***************************************************************************)
C4_DualSchemaEquivalence ==
    \A c \in Calls :
        (/\ Done(c) /\ BothParsed(c)
         /\ TireFile(c).node.type = "Map"
         /\ Lookup(TireFile(c).node, "tire") = Absent) =>
            LET nested == setup_vehicle_parameters(
                              FilesWith(c, VehicleFile(c),
                                        File(Map1("tire", TireFile(c).node))),
                              vehicle_id[c], dir_params[c])
            IN  /\ result[c].status = nested.status
                /\ result[c].status = "returned" =>
                      result[c].value.tire = nested.value.tire

(***************************************************************************)
(* C6: all or nothing.  A call ends with the fully populated structure or  *)
(* with an error and no structure; and absent fields alone cause no error: *)
(* when both documents exist, parse, are mappings (or empty) and hold no   *)
(* recognised field whose value is not a number, the call returns.         *)
(***************************************************************************)
C6_AllOrNothing ==
    \A c \in Calls :
        Done(c) =>
            /\ \/ /\ result[c].status = "returned"
                  /\ result[c].value =
                        ExpectedParameters(VehicleFile(c).node, TireFile(c).node)
               \/ /\ result[c].status = "threw"
                  /\ result[c].value = <<>>
            /\ (/\ BothParsed(c)
                /\ IsMapping(VehicleFile(c).node)
                /\ IsMapping(TireFile(c).node)
                /\ ~VehicleMismatch(VehicleFile(c).node)
                /\ ~TireMismatch(TireFile(c).node)) =>
                  result[c].status = "returned"

(***************************************************************************)
(* C9: tire source selection.  When the call comes to the tire document,   *)
(* the tire fields are those of the map under `tire` when there is one,    *)
(* else those of the document's top level when it is a map, and the        *)
(* defaults, without an error, when neither is a map.                      *)
(***************************************************************************)
C9_TireSourceSelection ==
    \A c \in Calls :
        (Done(c) /\ result[c].at \in {"load_tire", "return"}) =>
            IF TireMismatch(TireFile(c).node)
            THEN result[c].status = "threw"
            ELSE /\ result[c].status = "returned"
                 /\ result[c].value.tire = ExpectedTire(TireFile(c).node)

(***************************************************************************)
(* C7: call independence.  Whatever the interleaving with other calls and  *)
(* with rewrites of the documents, the outcome of a call is the outcome of *)
(* the same call made alone on the files as the call saw them.             *)
(***************************************************************************)
LastSeen(c, path) ==
    LET seen == {i \in DOMAIN fs_log[c] : fs_log[c][i][2] = path}
    IN  IF seen = {} THEN NoFile
        ELSE fs_log[c][CHOOSE i \in seen : \A j \in seen : j <= i][3]

SeenFiles(c) == [path \in AllPaths |-> LastSeen(c, path)]

C7_CallIndependence ==
    \A c \in Calls :
        Done(c) =>
            result[c] = setup_vehicle_parameters(SeenFiles(c), vehicle_id[c],
                                                 dir_params[c])

\* Two calls for the same vehicle id, one before and one after a rewrite of
\* its document, return different structures.
C7_Witness ==
    /\ Done(1) /\ Done(2)
    /\ vehicle_id[1] = vehicle_id[2]
    /\ result[1].status = "returned"
    /\ result[2].status = "returned"
    /\ result[1].value.m # result[2].value.m

====
